---- MODULE Spec2Model ----
(***************************************************************************)
(* A model of bwavfile's WaveReader (src/wavereader.rs): the container    *)
(* facade over a RIFF/RF64 byte stream, its chunk-extent lookups and its   *)
(* five validation predicates.                                             *)
(*                                                                         *)
(* The stream is modelled by what the chunk scanner sees of it: the outer  *)
(* form signature, the chunk headers in on-disk order (signature, 32-bit   *)
(* size field, and the one body field a reader decodes: block_alignment    *)
(* of a fmt chunk, the data-size field of a ds64 chunk), and the length    *)
(* of the stream in bytes.  The scanner (Parser), the fmt/bext decoders    *)
(* and RawChunkReader live in other files of the crate; the scanner and    *)
(* the decoders follow the design document.                                *)
(***************************************************************************)
EXTENDS Integers, Sequences, FiniteSets, TLC

(* ------------------------------ bounds --------------------------------- *)

\* Longest chunk list of a stream of each family explored (see Streams).
MaxChunks == 3
MaxFillerChunks == 4
MaxContentChunks == 3

\* Bytes missing at the end of a truncated stream.
Cut == 1

(* --------------------------- signatures -------------------------------- *)

FMT__SIG == "fmt "
DATA_SIG == "data"
BEXT_SIG == "bext"
JUNK_SIG == "JUNK"
FLLR_SIG == "FLLR"
DS64_SIG == "ds64"
LIST_SIG == "LIST"
RIFF_SIG == "RIFF"
RF64_SIG == "RF64"

Forms == {RIFF_SIG, RF64_SIG}

(* ----------------------- the streams explored -------------------------- *)

\* A chunk header as the scanner and the decoders see it: the signature,
\* the 32-bit size field, and the one decoded body field (block_alignment
\* of a fmt chunk, the 64-bit data size of a ds64 chunk, 0 otherwise).
Header(sig, sz, b) == [signature |-> sig, size |-> sz, body |-> b]

\* One chunk of each signature: any order, repetition and form.
StructureHeaders ==
    { Header(FMT__SIG, 16, 2), Header(DATA_SIG, 8, 0), Header(BEXT_SIG, 602, 0),
      Header(JUNK_SIG, 92, 0), Header(FLLR_SIG, 16332, 0),
      Header(DS64_SIG, 28, 6), Header(LIST_SIG, 4, 0) }

\* Filler chunks of the sizes around the ds64 reservation.
FillerHeaders ==
    { Header(FMT__SIG, 16, 2), Header(DATA_SIG, 8, 0) }
    \cup { Header(JUNK_SIG, sz, 0) : sz \in {42, 91, 92} }
    \cup { Header(FLLR_SIG, 41, 0) }

\* fmt chunks of several block alignments, data chunks that do and do not
\* hold a whole number of frames.
ContentHeaders ==
    { Header(FMT__SIG, 16, ba) : ba \in {0, 2, 3} }
    \cup { Header(DATA_SIG, sz, 0) : sz \in {5, 8} }
    \cup { Header(BEXT_SIG, 602, 0) }

HeaderLists(H, n) == UNION { [1..k -> H] : k \in 0..n }

\* Bytes a chunk occupies on disk: 8-byte header, payload, one pad byte
\* after an odd payload.
OnDisk(len) == 8 + len + (len % 2)

(* ------------------------------ results -------------------------------- *)

\* Result<T, ParserError>, plus the panic of an arithmetic fault.  val is a
\* tuple of integers: <<>> for (), <<n>> for a count, <<start, length>> for
\* a RawChunkReader, <<block_alignment>> for a WaveFmt.
NoError == [kind |-> "None", signature |-> "", expected |-> 0, actual |-> 0]
Ok(v) == [tag |-> "Ok", val |-> v, err |-> NoError]
Err(e) == [tag |-> "Err", val |-> <<>>, err |-> e]
Panic(what) ==
    [tag |-> "Panic", val |-> <<>>,
     err |-> [kind |-> what, signature |-> "", expected |-> 0, actual |-> 0]]

IOError ==
    [kind |-> "IOError", signature |-> "UnexpectedEof", expected |-> 0, actual |-> 0]
ChunkMissing(fourcc) ==
    [kind |-> "ChunkMissing", signature |-> fourcc, expected |-> 0, actual |-> 0]
FmtChunkAfterData ==
    [kind |-> "FmtChunkAfterData", signature |-> "", expected |-> 0, actual |-> 0]
NotMinimalWaveFile ==
    [kind |-> "NotMinimalWaveFile", signature |-> "", expected |-> 0, actual |-> 0]
DataChunkNotAligned ==
    [kind |-> "DataChunkNotAligned", signature |-> "", expected |-> 0, actual |-> 0]
InsufficientDS64Reservation(e, a) ==
    [kind |-> "InsufficientDS64Reservation", signature |-> "",
     expected |-> e, actual |-> a]
DataChunkNotPreparedForAppend ==
    [kind |-> "DataChunkNotPreparedForAppend", signature |-> "",
     expected |-> 0, actual |-> 0]
MalformedFmtChunk ==
    [kind |-> "MalformedFmtChunk", signature |-> "", expected |-> 0, actual |-> 0]

IsOk(r) == r.tag = "Ok"

(* --------------------------- chunk scanner ----------------------------- *)

OuterHeaderLen == 12
ChunkHeaderLen == 8
FmtMinLen == 16

\* The 64-bit data size retained from the last ds64 chunk read before
\* header i, or -1 when none was read.
Ds64Before(hs, i) ==
    LET js == { j \in 1..(i - 1) : hs[j].signature = DS64_SIG }
    IN  IF js = {} THEN -1
        ELSE hs[CHOOSE j \in js : \A k \in js : k <= j].body

\* Payload length of header i: the ds64 data size for the data chunk of an
\* RF64/BW64 container, else the 32-bit size field widened.
ResolvedLength(form, hs, i) ==
    IF form = RF64_SIG /\ hs[i].signature = DATA_SIG /\ Ds64Before(hs, i) >= 0
    THEN Ds64Before(hs, i)
    ELSE hs[i].size

\* Offset of the header of chunk i.
RECURSIVE HeaderPos(_, _, _)
HeaderPos(form, hs, i) ==
    IF i = 1 THEN OuterHeaderLen
    ELSE HeaderPos(form, hs, i - 1) + OnDisk(ResolvedLength(form, hs, i - 1))

\* Bytes of a stream that holds the whole of every chunk.
FullLen(form, hs) ==
    IF hs = <<>> THEN OuterHeaderLen
    ELSE HeaderPos(form, hs, Len(hs)) + OnDisk(ResolvedLength(form, hs, Len(hs)))

\* The extents the scanner emits, in on-disk order: one per chunk whose
\* 8-byte header lies within the stream; a payload that runs past the end
\* of the stream is emitted as declared.
RECURSIVE ScanFrom(_, _)
ScanFrom(s, i) ==
    IF i > Len(s.headers) \/ HeaderPos(s.form, s.headers, i) + ChunkHeaderLen > s.len
    THEN <<>>
    ELSE << [signature |-> s.headers[i].signature,
             start     |-> HeaderPos(s.form, s.headers, i) + ChunkHeaderLen,
             length    |-> ResolvedLength(s.form, s.headers, i)] >>
         \o ScanFrom(s, i + 1)

\* Parser::make(stream)?.into_chunk_list(): the outer 12-byte header must be
\* readable, else the read's end-of-file error is returned.
into_chunk_list(s) ==
    IF s.len < OuterHeaderLen THEN Err(IOError) ELSE Ok(ScanFrom(s, 1))

(* ------------------- WaveReader: private implementation ---------------- *)

\* p.iter().filter(|item| item.signature == fourcc): the matching extents,
\* in on-disk order.
FilterSig(p, fourcc) ==
    LET Matches(item) == item.signature = fourcc IN SelectSeq(p, Matches)

\* nth(index) of the matching extents, or ChunkMissing; a scan error is
\* returned as it is.
get_chunk_extent_at_index(s, fourcc, index) ==
    LET p == into_chunk_list(s)
    IN  IF ~IsOk(p) THEN Err(p.err)
        ELSE LET found == FilterSig(p.val, fourcc)
             IN  IF Len(found) > index
                 THEN Ok(<<found[index + 1].start, found[index + 1].length>>)
                 ELSE Err(ChunkMissing(fourcc))

\* chunk_reader as it would be with the extent checked against the stream.
chunk_reader_checked(s, signature, at_index) ==
    LET extent == get_chunk_extent_at_index(s, signature, at_index)
    IN  IF ~IsOk(extent) THEN extent
        ELSE IF extent.val[1] + extent.val[2] > s.len THEN Err(IOError)
        ELSE Ok(<<extent.val[1], extent.val[2]>>)

\* RawChunkReader::new(&mut self.inner, start, length) builds the reader from
\* the extent as looked up; nothing is compared with the stream's length.
chunk_reader(s, signature, at_index) ==
    LET extent == get_chunk_extent_at_index(s, signature, at_index)
    IN  IF ~IsOk(extent) THEN extent
        ELSE Ok(<<extent.val[1], extent.val[2]>>)

(* ------------------------ decoders of a payload ------------------------ *)

\* The body field of the chunk whose payload starts at start.
BodyAt(s, start) ==
    LET i == CHOOSE j \in 1..Len(s.headers) :
                 HeaderPos(s.form, s.headers, j) + ChunkHeaderLen = start
    IN  s.headers[i].body

\* read_wave_fmt on the window <<start, length>>: the 16-byte PCM layout is
\* decoded; a shorter chunk is malformed, and a window cut short by the end
\* of the stream ends the read early.
read_wave_fmt(s, window) ==
    IF window[2] < FmtMinLen THEN Err(MalformedFmtChunk)
    ELSE IF window[1] + FmtMinLen > s.len THEN Err(IOError)
    ELSE Ok(<<BodyAt(s, window[1])>>)

\* read_bext on the window <<start, length>>: the record is kept opaque;
\* a window cut short by the end of the stream ends the read early.
read_bext(s, window) ==
    IF window[1] + window[2] > s.len THEN Err(IOError) ELSE Ok(window)

(* ---------------------- WaveReader: public methods --------------------- *)

\* validate_readable as it would be without the comparison of the offsets.
validate_readable_unordered(s) ==
    LET fmt == get_chunk_extent_at_index(s, FMT__SIG, 0)
    IN  IF ~IsOk(fmt) THEN fmt
        ELSE LET data == get_chunk_extent_at_index(s, DATA_SIG, 0)
             IN  IF ~IsOk(data) THEN data ELSE Ok(<<>>)

validate_readable(s) ==
    LET fmt == get_chunk_extent_at_index(s, FMT__SIG, 0)
    IN  IF ~IsOk(fmt) THEN fmt
        ELSE LET data == get_chunk_extent_at_index(s, DATA_SIG, 0)
             IN  IF ~IsOk(data) THEN data
                 ELSE IF fmt.val[1] < data.val[1] THEN Ok(<<>>)
                 ELSE Err(FmtChunkAfterData)

\* new as it would be without the call of validate_readable.
new_unchecked(s) == Ok(<<>>)

\* WaveReader::new: retval.validate_readable()?; Ok(retval)
new(s) ==
    LET readable == validate_readable(s)
    IN  IF ~IsOk(readable) THEN readable ELSE Ok(<<>>)

format(s) ==
    LET r == chunk_reader(s, FMT__SIG, 0)
    IN  IF ~IsOk(r) THEN r ELSE read_wave_fmt(s, r.val)

broadcast_extension(s) ==
    LET r == chunk_reader(s, BEXT_SIG, 0)
    IN  IF ~IsOk(r) THEN r ELSE read_bext(s, r.val)

\* AudioFrameReader::new(audio_chunk_reader, format): the value holds the
\* data window and the format's block_alignment.
audio_frame_reader(s) ==
    LET fmt == format(s)
    IN  IF ~IsOk(fmt) THEN fmt
        ELSE LET r == chunk_reader(s, DATA_SIG, 0)
             IN  IF ~IsOk(r) THEN r
                 ELSE Ok(<<r.val[1], r.val[2], fmt.val[1]>>)

\* data_length / (format.block_alignment as u64): u64 division truncates,
\* and panics on a zero divisor.
frame_length(s) ==
    LET data == get_chunk_extent_at_index(s, DATA_SIG, 0)
    IN  IF ~IsOk(data) THEN data
        ELSE LET fmt == format(s)
             IN  IF ~IsOk(fmt) THEN fmt
                 ELSE IF fmt.val[1] = 0 THEN Panic("DivideByZero")
                 ELSE Ok(<<data.val[2] \div fmt.val[1]>>)

\* .iter().map(|c| c.signature).collect()
Signatures(chunks) == [i \in 1..Len(chunks) |-> chunks[i].signature]

\* validate_minimal as it would be comparing only the first two signatures.
validate_minimal_prefix(s) ==
    LET readable == validate_readable(s)
    IN  IF ~IsOk(readable) THEN readable
        ELSE LET chunks == into_chunk_list(s)
             IN  IF ~IsOk(chunks) THEN Err(chunks.err)
                 ELSE IF SubSeq(Signatures(chunks.val), 1, 2)
                            = <<FMT__SIG, DATA_SIG>>
                 THEN Ok(<<>>)
                 ELSE Err(NotMinimalWaveFile)

\* validate_minimal as it would be without the call of validate_readable.
validate_minimal_unguarded(s) ==
    LET chunks == into_chunk_list(s)
    IN  IF ~IsOk(chunks) THEN Err(chunks.err)
        ELSE IF Signatures(chunks.val) = <<FMT__SIG, DATA_SIG>>
        THEN Ok(<<>>)
        ELSE Err(NotMinimalWaveFile)

validate_minimal(s) ==
    LET readable == validate_readable(s)
    IN  IF ~IsOk(readable) THEN readable
        ELSE LET chunks == into_chunk_list(s)
             IN  IF ~IsOk(chunks) THEN Err(chunks.err)
                 ELSE IF Signatures(chunks.val) = <<FMT__SIG, DATA_SIG>>
                 THEN Ok(<<>>)
                 ELSE Err(NotMinimalWaveFile)

validate_broadcast_wave(s) ==
    LET readable == validate_readable(s)
    IN  IF ~IsOk(readable) THEN readable
        ELSE LET bext == get_chunk_extent_at_index(s, BEXT_SIG, 0)
             IN  IF ~IsOk(bext) THEN bext ELSE Ok(<<>>)

\* 0x4000
DataAlignment == 16384

validate_data_chunk_alignment(s) ==
    LET readable == validate_readable(s)
    IN  IF ~IsOk(readable) THEN readable
        ELSE LET data == get_chunk_extent_at_index(s, DATA_SIG, 0)
             IN  IF ~IsOk(data) THEN data
                 ELSE IF data.val[1] = DataAlignment THEN Ok(<<>>)
                 ELSE Err(DataChunkNotAligned)

ds64_space_required == 92

\* eligible_filler_chunks as it would be with filter in place of take_while.
eligible_filler_anywhere(chunks) ==
    LET Eligible(c) == c.signature = JUNK_SIG \/ c.signature = FLLR_SIG
    IN  SelectSeq(chunks, Eligible)

\* chunks.iter().take_while(|c| c.signature == JUNK_SIG ||
\* c.signature == FLLR_SIG): the filler chunks the list begins with.
RECURSIVE eligible_filler_chunks(_)
eligible_filler_chunks(chunks) ==
    IF chunks = <<>> THEN <<>>
    ELSE IF Head(chunks).signature = JUNK_SIG \/ Head(chunks).signature = FLLR_SIG
    THEN <<Head(chunks)>> \o eligible_filler_chunks(Tail(chunks))
    ELSE <<>>

\* The fold as it would be counting a header for every filler chunk.
RECURSIVE FoldFiller_every_header(_, _, _)
FoldFiller_every_header(accum, n, items) ==
    IF items = <<>> THEN accum
    ELSE FoldFiller_every_header(accum + Head(items).length + 8,
                                 n + 1, Tail(items))

\* .enumerate().fold(0, |accum, (n, item)| if n == 0 { accum + item.length }
\* else { accum + item.length + 8 }), folded from the left; n counts from 0.
RECURSIVE FoldFiller(_, _, _)
FoldFiller(accum, n, items) ==
    IF items = <<>> THEN accum
    ELSE FoldFiller(IF n = 0 THEN accum + Head(items).length
                    ELSE accum + Head(items).length + 8,
                    n + 1, Tail(items))

filler(chunks) == FoldFiller(0, 0, eligible_filler_chunks(chunks))

\* data_pos as it would be with rposition: the last data chunk.
data_pos_last(chunks) ==
    LET at == { i \in 1..Len(chunks) : chunks[i].signature = DATA_SIG }
    IN  IF at = {} THEN -1
        ELSE (CHOOSE i \in at : \A j \in at : j <= i) - 1

\* chunks.iter().position(|c| c.signature == DATA_SIG): the 0-based index of
\* the first data chunk, or -1 for None.
data_pos(chunks) ==
    LET at == { i \in 1..Len(chunks) : chunks[i].signature = DATA_SIG }
    IN  IF at = {} THEN -1
        ELSE (CHOOSE i \in at : \A j \in at : i <= j) - 1

validate_prepared_for_append(s) ==
    LET readable == validate_readable(s)
    IN  IF ~IsOk(readable) THEN readable
        ELSE LET chunks == into_chunk_list(s)
             IN  IF ~IsOk(chunks) THEN Err(chunks.err)
                 ELSE IF filler(chunks.val) < ds64_space_required
                 THEN Err(InsufficientDS64Reservation(ds64_space_required,
                                                      filler(chunks.val)))
                 ELSE IF data_pos(chunks.val) >= 0
                         /\ data_pos(chunks.val) = Len(chunks.val) - 1
                 THEN Ok(<<>>)
                 ELSE Err(DataChunkNotPreparedForAppend)

(* --------------------------- state machine ----------------------------- *)

Stream(f, hs, c) == [form |-> f, headers |-> hs, len |-> FullLen(f, hs) - c]

\* The streams explored: every chunk order in both container forms, the
\* filler sizes in classic containers, and the decoded contents in whole
\* and truncated streams of both forms.
Streams ==
    { Stream(f, hs, 0) :
        f \in Forms, hs \in HeaderLists(StructureHeaders, MaxChunks) }
    \cup { Stream(RIFF_SIG, hs, 0) :
        hs \in HeaderLists(FillerHeaders, MaxFillerChunks) }
    \cup UNION { { Stream(f, hs, c) :
                     f \in Forms, hs \in HeaderLists(ContentHeaders, MaxContentChunks) }
                 : c \in {0, Cut} }

VARIABLES
    inner,    \* the byte stream handed to the reader (WaveReader.inner)
    reader,   \* "none": no WaveReader exists; "some": one wraps inner
    op,       \* the operation that ran last
    result    \* what it returned

vars == <<inner, reader, op, result>>

Init ==
    /\ inner \in Streams
    /\ reader = "none"
    /\ op = "init"
    /\ result = Ok(<<>>)

\* WaveReader::new(inner)
New ==
    /\ reader = "none"
    /\ op' = "new"
    /\ result' = new(inner)
    /\ reader' = IF IsOk(new(inner)) THEN "some" ELSE "none"
    /\ UNCHANGED inner

\* WaveReader { inner }: the struct and its only field are public.
Literal ==
    /\ reader = "none"
    /\ op' = "literal"
    /\ result' = Ok(<<>>)
    /\ reader' = "some"
    /\ UNCHANGED inner

IntoInner ==
    /\ reader = "some"
    /\ op' = "into_inner"
    /\ result' = Ok(<<>>)
    /\ reader' = "none"
    /\ UNCHANGED inner

\* A &mut self method: the reader and its stream stay as they are.
Method(name, r) ==
    /\ reader = "some"
    /\ op' = name
    /\ result' = r
    /\ UNCHANGED <<inner, reader>>

ValidateReadable == Method("validate_readable", validate_readable(inner))
ValidateMinimal == Method("validate_minimal", validate_minimal(inner))
ValidateBroadcastWave ==
    Method("validate_broadcast_wave", validate_broadcast_wave(inner))
ValidateDataChunkAlignment ==
    Method("validate_data_chunk_alignment", validate_data_chunk_alignment(inner))
ValidatePreparedForAppend ==
    Method("validate_prepared_for_append", validate_prepared_for_append(inner))
FrameLength == Method("frame_length", frame_length(inner))
Format == Method("format", format(inner))
BroadcastExtension == Method("broadcast_extension", broadcast_extension(inner))
AudioFrameReader == Method("audio_frame_reader", audio_frame_reader(inner))

\* chunk_reader as its three callers use it: index 0 of fmt, bext, data.
ChunkReader ==
    \E sig \in {FMT__SIG, BEXT_SIG, DATA_SIG} :
        Method("chunk_reader " \o sig, chunk_reader(inner, sig, 0))

Next ==
    \/ New
    \/ Literal
    \/ IntoInner
    \/ ValidateReadable
    \/ ValidateMinimal
    \/ ValidateBroadcastWave
    \/ ValidateDataChunkAlignment
    \/ ValidatePreparedForAppend
    \/ FrameLength
    \/ Format
    \/ BroadcastExtension
    \/ AudioFrameReader
    \/ ChunkReader

Spec == Init /\ [][Next]_vars

(* ------------------- what the properties speak about ------------------- *)

\* The chunk list of the stream, when the scan succeeds.
Scanned == into_chunk_list(inner).tag = "Ok"
Chunks == into_chunk_list(inner).val

Has(sig) == \E i \in 1..Len(Chunks) : Chunks[i].signature = sig
First(sig) ==
    Chunks[CHOOSE i \in 1..Len(Chunks) :
              /\ Chunks[i].signature = sig
              /\ \A j \in 1..(i - 1) : Chunks[j].signature # sig]
IsFiller(c) == c.signature \in {JUNK_SIG, FLLR_SIG}
Readable == Scanned /\ validate_readable(inner).tag = "Ok"

(* ------------------------------ C1 ------------------------------------- *)

\* C1: on a scanned stream validate_readable returns Ok exactly when a fmt
\* and a data chunk exist and the first fmt payload starts before the first
\* data payload; it fails with ChunkMissing(fmt) when fmt is absent, with
\* ChunkMissing(data) when only data is absent, and with FmtChunkAfterData
\* when both exist and data comes first.
C1_ValidateReadable ==
    (op = "validate_readable" /\ Scanned) =>
        result = IF ~Has(FMT__SIG) THEN Err(ChunkMissing(FMT__SIG))
                 ELSE IF ~Has(DATA_SIG) THEN Err(ChunkMissing(DATA_SIG))
                 ELSE IF First(FMT__SIG).start < First(DATA_SIG).start
                 THEN Ok(<<>>)
                 ELSE Err(FmtChunkAfterData)

\* Both chunks are present, data comes first, and the ordering error is
\* returned.
C1_Witness ==
    /\ op = "validate_readable"
    /\ Scanned /\ Has(FMT__SIG) /\ Has(DATA_SIG)
    /\ First(DATA_SIG).start < First(FMT__SIG).start
    /\ result = Err(FmtChunkAfterData)

(* ------------------------------ C2 ------------------------------------- *)

\* C2: WaveReader::new hands out a reader exactly when validate_readable
\* succeeds on the stream, and otherwise returns validate_readable's error,
\* an IO error of the scan included.
C2_NewChecksReadable ==
    op = "new" =>
        /\ IsOk(result) <=> IsOk(validate_readable(inner))
        /\ ~IsOk(validate_readable(inner)) => result = validate_readable(inner)
        /\ reader = "some" <=> IsOk(validate_readable(inner))

\* The scan fails with an IO error, and new returns it and no reader.
C2_Witness ==
    /\ op = "new"
    /\ ~Scanned
    /\ result = Err(IOError)
    /\ reader = "none"

(* ------------------------------ C3 ------------------------------------- *)

C4_MinimalRefusesRF64 ==
    (op = "validate_minimal" /\ inner.form = RF64_SIG) => ~IsOk(result)

(* ------------------------------ C5 ------------------------------------- *)

\* The 1-based index of the first data chunk of a readable stream.
FirstDataIndex ==
    CHOOSE i \in 1..Len(Chunks) :
        /\ Chunks[i].signature = DATA_SIG
        /\ \A j \in 1..(i - 1) : Chunks[j].signature # DATA_SIG

\* C5 as stated: the filler counted is the chunk immediately before data; a
\* readable container with a filler of at least 92 bytes right before data,
\* and data last, passes, and one whose chunk right before data is not a
\* filler does not pass.
C5_FillerBeforeData ==
    (op = "validate_prepared_for_append" /\ Readable) =>
        LET before == Chunks[FirstDataIndex - 1]
        IN  /\ (IsFiller(before) /\ before.length >= ds64_space_required
                  /\ FirstDataIndex = Len(Chunks)) => IsOk(result)
            /\ ~IsFiller(before) => ~IsOk(result)

\* C5 amended: the filler counted is the run of JUNK/FLLR chunks the chunk
\* list begins with.  A readable container whose first chunk is a filler of
\* at least 92 bytes, with its first data chunk last, passes; one whose first
\* chunk is not a filler fails with InsufficientDS64Reservation{92, 0},
\* whatever precedes data.
C5_FillerLeadsChunkList ==
    (op = "validate_prepared_for_append" /\ Readable) =>
        /\ (IsFiller(Chunks[1]) /\ Chunks[1].length >= ds64_space_required
              /\ FirstDataIndex = Len(Chunks)) => IsOk(result)
        /\ ~IsFiller(Chunks[1]) =>
              result = Err(InsufficientDS64Reservation(ds64_space_required, 0))

\* <<fmt, JUNK(92), data>>: a sufficient filler right before data, not at
\* the head of the list, and no reservation is counted.
C5_Witness ==
    /\ op = "validate_prepared_for_append"
    /\ Readable
    /\ Signatures(Chunks) = <<FMT__SIG, JUNK_SIG, DATA_SIG>>
    /\ Chunks[2].length = 92
    /\ result = Err(InsufficientDS64Reservation(92, 0))

(* ------------------------------ C6 ------------------------------------- *)

\* The number of filler chunks the chunk list begins with.
LeadingFillers ==
    CHOOSE k \in 0..Len(Chunks) :
        /\ \A i \in 1..k : IsFiller(Chunks[i])
        /\ k < Len(Chunks) => ~IsFiller(Chunks[k + 1])

RECURSIVE SumLengths(_)
SumLengths(k) == IF k = 0 THEN 0 ELSE SumLengths(k - 1) + Chunks[k].length

\* l1 + ... + lk + 8*(k-1) for the k leading fillers, 0 for none.
Reserved ==
    IF LeadingFillers = 0 THEN 0
    ELSE SumLengths(LeadingFillers) + 8 * (LeadingFillers - 1)

\* C6: on a readable container validate_prepared_for_append fails with
\* InsufficientDS64Reservation{expected: 92, actual: reserved} exactly when
\* reserved < 92, reserved being l1 + ... + lk + 8*(k-1) over the k filler
\* chunks counted; reserved = 92 is accepted.
C6_ReservedSize ==
    (op = "validate_prepared_for_append" /\ Readable) =>
        /\ Reserved < 92 =>
              result = Err(InsufficientDS64Reservation(92, Reserved))
        /\ Reserved >= 92 => result.err.kind # "InsufficientDS64Reservation"

\* Two fillers of 41 and 42 bytes reserve 41 + 42 + 8 = 91 bytes, one short.
C6_Witness ==
    /\ op = "validate_prepared_for_append"
    /\ Readable
    /\ LeadingFillers = 2
    /\ Reserved = 91
    /\ result = Err(InsufficientDS64Reservation(92, 91))

(* ------------------------------ C7 ------------------------------------- *)

\* C7 as stated: with at least 92 bytes reserved the predicate returns Ok
\* exactly when the last chunk of the file is a data chunk, and otherwise
\* DataChunkNotPreparedForAppend; below 92 the reservation error is returned.
C7_DataIsLastChunk ==
    (op = "validate_prepared_for_append" /\ Readable) =>
        /\ Reserved >= 92 =>
              result = IF Chunks[Len(Chunks)].signature = DATA_SIG
                       THEN Ok(<<>>)
                       ELSE Err(DataChunkNotPreparedForAppend)
        /\ Reserved < 92 => result.err.kind = "InsufficientDS64Reservation"

\* C7 amended: with at least 92 bytes reserved the predicate returns Ok
\* exactly when the FIRST data chunk is the last chunk of the file, and
\* otherwise DataChunkNotPreparedForAppend; a file with a second data chunk
\* fails so even when its last chunk is a data chunk.  Below 92 the
\* reservation error is returned, whether or not data is last.
C7_FirstDataIsLastChunk ==
    (op = "validate_prepared_for_append" /\ Readable) =>
        /\ Reserved >= 92 =>
              result = IF FirstDataIndex = Len(Chunks)
                       THEN Ok(<<>>)
                       ELSE Err(DataChunkNotPreparedForAppend)
        /\ Reserved < 92 => result.err.kind = "InsufficientDS64Reservation"

\* Two data chunks, the second one last: not prepared for append.
C7_Witness ==
    /\ op = "validate_prepared_for_append"
    /\ Readable
    /\ Reserved >= 92
    /\ Chunks[Len(Chunks)].signature = DATA_SIG
    /\ FirstDataIndex < Len(Chunks)
    /\ result = Err(DataChunkNotPreparedForAppend)

(* ------------------------------ C8 ------------------------------------- *)

ChunkReaderOps ==
    { "chunk_reader " \o sig : sig \in {FMT__SIG, BEXT_SIG, DATA_SIG} }

\* The signature a chunk_reader operation looked up.
LookedUp ==
    CHOOSE sig \in {FMT__SIG, BEXT_SIG, DATA_SIG} : op = "chunk_reader " \o sig

C9_FrameLength ==
    (op = "frame_length" /\ Scanned) =>
        /\ (Has(DATA_SIG) /\ IsOk(format(inner))) =>
              /\ IsOk(result)
              /\ result.val[1] * format(inner).val[1] <= First(DATA_SIG).length
              /\ First(DATA_SIG).length
                    < (result.val[1] + 1) * format(inner).val[1]
        /\ ~Has(DATA_SIG) => result = Err(ChunkMissing(DATA_SIG))

(* ------------------------------ C10 ------------------------------------ *)

StrongerPredicates ==
    { "validate_minimal", "validate_broadcast_wave",
      "validate_data_chunk_alignment", "validate_prepared_for_append" }

\* C10: each of the four stronger predicates returns Ok only on a stream on
\* which validate_readable returns Ok, and where validate_readable fails it
\* returns exactly validate_readable's error.
C10_ReadableFirst ==
    op \in StrongerPredicates =>
        /\ IsOk(result) => IsOk(validate_readable(inner))
        /\ ~IsOk(validate_readable(inner)) => result = validate_readable(inner)

\* A container with data before fmt and no bext: validate_broadcast_wave
\* reports the ordering error, not the missing bext.
C10_Witness ==
    /\ op = "validate_broadcast_wave"
    /\ Scanned /\ ~Has(BEXT_SIG)
    /\ validate_readable(inner) = Err(FmtChunkAfterData)
    /\ result = Err(FmtChunkAfterData)
====
